---- MODULE Spec2Model ----
(***************************************************************************)
(* Vector-store ownership and resolution model of the AI-Clone API         *)
(* (src/src/api/endpoints.py, src/src/api/utils.py).                       *)
(*                                                                         *)
(* The relational datastore (tables domains, experts, vector_stores,       *)
(* documents) and the retrieval engine (stores, files, batches) are the    *)
(* state.  Every request handler is a pure operator from a world record to *)
(* the set of outcomes it can produce (new world + response); an action    *)
(* commits one outcome.  A handler that calls another handler is the       *)
(* composition of the two operators, so a nested call is part of the       *)
(* calling action.                                                         *)
(*                                                                         *)
(* A document mapping (Dict[name, url]) is modelled as the sequence of its *)
(* values in dictionary order; the i-th key is the name i.                 *)
(***************************************************************************)
EXTENDS Integers, Sequences, FiniteSets, TLC

\* ------------------------------------------------------------------ bounds
MaxRequests == 5    \* requests served in one behaviour

DomainNames == {"d1"}
ExpertNames == {"e1"}
ClientNames == {"c1"}
URLs == {"uA", "uB"}
Procs == {"p1", "p2"}

NoName == "null"    \* Python None in a name column
NoId == 0           \* Python None in an identifier column

Range(s) == {s[i] : i \in DOMAIN s}

\* the document mappings requests carry: none, one or two entries, the two
\* entries with different urls or with the same url under two names
Mappings == {<<>>, <<"uA">>, <<"uA", "uB">>, <<"uA", "uA">>}

\* ------------------------------------------------------------------- state
VARIABLES
  domains,        \* table domains: domain_name -> row
  experts,        \* table experts: name -> row
  vector_stores,  \* table vector_stores: rows in insertion order
  documents,      \* table documents: set of rows
  engine,         \* retrieval engine: stores, files, counters
  optedIn,        \* experts created with use_default_domain_knowledge
  served,         \* number of requests served so far
  lastOp,         \* the last request served and its response
  req             \* in-flight add-files requests (interleaved runs only)

vars == <<domains, experts, vector_stores, documents, engine, optedIn, served,
          lastOp, req>>

\* the datastore and the engine as one value
World == [domains |-> domains, experts |-> experts,
          vector_stores |-> vector_stores, documents |-> documents,
          engine |-> engine]

\* --------------------------------------------------------------- responses
\* code is the status the caller sees and err the reason of a failure; msg
\* tells "existing" from "created" in a resolver's message; batches are the
\* batch-ingest calls made (the content ids of each); warn is the reason a
\* best-effort step was abandoned, which the payload does not carry
Resp(code, err) ==
  [code |-> code, err |-> err, vector_id |-> NoId, default_vector_id |-> NoId,
   file_ids |-> <<>>, all_file_ids |-> <<>>, batch_id |-> NoId,
   batches |-> <<>>, msg |-> "none", warn |-> "none",
   queried |-> FALSE, vector_store_ids |-> <<>>]

Ok == Resp(200, "none")

Out(w, r) == [w |-> w, r |-> r]

Raised(o) == o.r.code # 200

\* ------------------------------------------------------- retrieval engine
\* client.vector_stores.create: a fresh identifier, or an upstream failure
create_vector_store(w, vector_name) ==
  LET id == w.engine.next_store
  IN { Out([w EXCEPT !.engine.stores = @ \cup {id},
                     !.engine.store_names = @ @@ (id :> vector_name),
                     !.engine.store_files = @ @@ (id :> {}),
                     !.engine.next_store = @ + 1],
           [Ok EXCEPT !.vector_id = id]),
       Out(w, Resp(500, "upstream")) }

\* client.vector_stores.delete: fails on a store the engine does not hold
delete_vector_index(w, vector_id) ==
  IF vector_id \in w.engine.stores
  THEN { Out([w EXCEPT !.engine.stores = @ \ {vector_id},
                       !.engine.store_files[vector_id] = {}], Ok) }
  ELSE { Out(w, Resp(500, "upstream")) }

\* client.vector_stores.file_batches.create: fails on a missing store; the
\* engine's answer to an empty file list is not fixed by the code
add_batch_to_vector_store(w, vector_store_id, document_ids) ==
  LET id == w.engine.next_batch
      done == Out([w EXCEPT !.engine.store_files[vector_store_id] =
                                 @ \cup Range(document_ids),
                            !.engine.next_batch = @ + 1],
                  [Ok EXCEPT !.batch_id = id,
                             !.batches = << Range(document_ids) >>])
      failed == Out(w, Resp(500, "upstream"))
  IN IF vector_store_id \notin w.engine.stores THEN {failed}
     ELSE IF document_ids = <<>> THEN {done, failed}
     ELSE {done}

\* client.files.create followed by the insert into documents (the name
\* column, which carries the dictionary key, is left out)
create_file_for_vector_store(w, document_url, domain_name, expert_name, client_name) ==
  LET id == w.engine.next_file
      row == [document_link |-> document_url, domain |-> domain_name,
              created_by |-> IF expert_name # NoName THEN expert_name
                             ELSE "default",
              client_name |-> client_name, openai_file_id |-> id]
  IN Out([w EXCEPT !.engine.files = @ \cup {id},
                   !.engine.next_file = @ + 1,
                   !.documents = IF domain_name # NoName THEN @ \cup {row}
                                 ELSE @],
         [Ok EXCEPT !.file_ids = <<id>>])

RECURSIVE create_files_for_vector_store(_, _, _, _, _)
\* one file per entry of the mapping, in dictionary order
create_files_for_vector_store(w, document_urls, domain_name, expert_name, client_name) ==
  IF document_urls = <<>> THEN Out(w, Ok)
  ELSE LET o == create_file_for_vector_store(w, Head(document_urls),
                    domain_name, expert_name, client_name)
           rest == create_files_for_vector_store(o.w, Tail(document_urls),
                    domain_name, expert_name, client_name)
       IN Out(rest.w, [Ok EXCEPT !.file_ids = o.r.file_ids \o rest.r.file_ids])

\* files for every document, then one batch; a failed batch leaves the files
\* and their documents rows behind
add_documents_to_domain_vector_store(w, vector_store_id, document_urls, domain_name) ==
  LET f == create_files_for_vector_store(w, document_urls, domain_name,
                                         NoName, NoName)
  IN { IF Raised(b) THEN Out(f.w, Resp(500, "upstream"))
       ELSE Out(b.w, [b.r EXCEPT !.file_ids = f.r.file_ids])
       : b \in add_batch_to_vector_store(f.w, vector_store_id, f.r.file_ids) }

add_documents_to_expert_vector_store(w, vector_store_id, document_urls, domain_name, expert_name, client_name) ==
  LET f == create_files_for_vector_store(w, document_urls, domain_name,
                                         expert_name, client_name)
  IN { IF Raised(b) THEN Out(f.w, Resp(500, "upstream"))
       ELSE Out(b.w, [b.r EXCEPT !.file_ids = f.r.file_ids])
       : b \in add_batch_to_vector_store(f.w, vector_store_id, f.r.file_ids) }

\* ------------------------------------------------------------ 1. domains
\* create_domain that creates the store before it looks for the name
create_domain_store_first(w, domain_name) ==
  { IF domain_name \in DOMAIN o.w.domains
    THEN Out(o.w, Resp(500, "domain_exists"))
    ELSE LET vector_id == IF Raised(o) THEN NoId ELSE o.r.vector_id
             row == [default_vector_id |-> vector_id, expert_names |-> <<>>]
         IN Out([o.w EXCEPT !.domains = @ @@ (domain_name :> row)],
                [Ok EXCEPT !.default_vector_id = vector_id])
    : o \in create_vector_store(w, <<"Default", domain_name>>) }

\* create_domain that loses the identifier of the store it created
create_domain_drops_id(w, domain_name) ==
  IF domain_name \in DOMAIN w.domains
  THEN { Out(w, Resp(500, "domain_exists")) }
  ELSE { LET row == [default_vector_id |-> NoId, expert_names |-> <<>>]
         IN Out([o.w EXCEPT !.domains = @ @@ (domain_name :> row)],
                [Ok EXCEPT !.default_vector_id = NoId])
         : o \in create_vector_store(w, <<"Default", domain_name>>) }

create_domain(w, domain_name) ==
  IF domain_name \in DOMAIN w.domains
  THEN { Out(w, Resp(500, "domain_exists")) }
  ELSE { LET vector_id == IF Raised(o) THEN NoId ELSE o.r.vector_id
             row == [default_vector_id |-> vector_id, expert_names |-> <<>>]
         IN Out([o.w EXCEPT !.domains = @ @@ (domain_name :> row)],
                [Ok EXCEPT !.default_vector_id = vector_id])
         : o \in create_vector_store(w, <<"Default", domain_name>>) }

\* get_domain_vector_id that creates a store on every call
get_domain_vector_id_always_creates(w, domain_name) ==
  IF domain_name \notin DOMAIN w.domains
  THEN { Out(w, Resp(500, "domain_not_found")) }
  ELSE { IF Raised(o) THEN Out(o.w, Resp(500, "upstream"))
         ELSE Out([o.w EXCEPT !.domains[domain_name].default_vector_id =
                                 o.r.vector_id],
                  [Ok EXCEPT !.default_vector_id = o.r.vector_id])
         : o \in create_vector_store(w, <<"Default", domain_name>>) }

\* get_domain_vector_id that creates the store a domain lacks
get_domain_vector_id_lazy(w, domain_name) ==
  IF domain_name \notin DOMAIN w.domains
  THEN { Out(w, Resp(500, "domain_not_found")) }
  ELSE IF w.domains[domain_name].default_vector_id # NoId
  THEN { Out(w, [Ok EXCEPT !.default_vector_id =
                     w.domains[domain_name].default_vector_id]) }
  ELSE { IF Raised(o) THEN Out(o.w, Resp(500, "upstream"))
         ELSE Out([o.w EXCEPT !.domains[domain_name].default_vector_id =
                                 o.r.vector_id],
                  [Ok EXCEPT !.default_vector_id = o.r.vector_id])
         : o \in create_vector_store(w, <<"Default", domain_name>>) }

get_domain_vector_id(w, domain_name) ==
  IF domain_name \notin DOMAIN w.domains
  THEN { Out(w, Resp(500, "domain_not_found")) }
  ELSE { Out(w, [Ok EXCEPT !.default_vector_id =
                     w.domains[domain_name].default_vector_id]) }

\* ------------------------------------------------------------ 4. experts
\* update_expert_domain_vector without the test for a store resolved before
update_expert_domain_vector_uncached(w, expert_name) ==
  IF expert_name \notin DOMAIN w.experts
  THEN { Out(w, Resp(500, "expert_not_found")) }
  ELSE LET domain_name == w.experts[expert_name].domain
       IN IF domain_name = NoName
          THEN { Out(w, Resp(500, "no_domain")) }
          ELSE IF domain_name \notin DOMAIN w.domains
          THEN { Out(w, Resp(500, "domain_not_found")) }
          ELSE { IF Raised(o) THEN Out(o.w, Resp(500, "upstream"))
                 ELSE Out([o.w EXCEPT
                             !.experts[expert_name].preferred_vector_id =
                                 o.r.vector_id],
                          [Ok EXCEPT !.vector_id = o.r.vector_id,
                                     !.msg = "created"])
                 : o \in create_vector_store(w, <<expert_name, domain_name>>) }

\* 8. get or create the dedicated store of an expert
update_expert_domain_vector(w, expert_name) ==
  IF expert_name \notin DOMAIN w.experts
  THEN { Out(w, Resp(500, "expert_not_found")) }
  ELSE LET expert_data == w.experts[expert_name]
           domain_name == expert_data.domain
           preferred_vector_id == expert_data.preferred_vector_id
           default_vector_id == expert_data.default_vector_id
       IN IF domain_name = NoName
          THEN { Out(w, Resp(500, "no_domain")) }
          ELSE IF preferred_vector_id # NoId
                  /\ preferred_vector_id # default_vector_id
          THEN { Out(w, [Ok EXCEPT !.vector_id = preferred_vector_id,
                                   !.msg = "existing"]) }
          ELSE IF domain_name \notin DOMAIN w.domains
          THEN { Out(w, Resp(500, "domain_not_found")) }
          ELSE { IF Raised(o) THEN Out(o.w, Resp(500, "upstream"))
                 ELSE Out([o.w EXCEPT
                             !.experts[expert_name].preferred_vector_id =
                                 o.r.vector_id],
                          [Ok EXCEPT !.vector_id = o.r.vector_id,
                                     !.msg = "created"])
                 : o \in create_vector_store(w, <<expert_name, domain_name>>) }

\* create_expert_domain_vector that writes the default store of the expert
\* only, whatever the option
create_expert_domain_vector_default_only(w, expert_name, use_default_domain_vector) ==
  IF expert_name \notin DOMAIN w.experts
  THEN { Out(w, Resp(500, "expert_not_found")) }
  ELSE LET domain_name == w.experts[expert_name].domain
       IN IF domain_name = NoName
          THEN { Out(w, Resp(500, "no_domain")) }
          ELSE UNION {
            IF Raised(dv) THEN { Out(w, Resp(500, dv.r.err)) }
            ELSE IF dv.r.default_vector_id = NoId
            THEN { Out(w, Resp(500, "no_default_store")) }
            ELSE LET default_vector_id == dv.r.default_vector_id
                     w1 == [w EXCEPT !.experts[expert_name].default_vector_id =
                                         default_vector_id]
                 IN IF use_default_domain_vector
                    THEN { Out(w1, [Ok EXCEPT
                                      !.default_vector_id = default_vector_id,
                                      !.vector_id = default_vector_id]) }
                    ELSE { IF Raised(o) THEN Out(o.w, Resp(500, o.r.err))
                           ELSE o
                           : o \in update_expert_domain_vector(w1, expert_name) }
            : dv \in get_domain_vector_id(w, domain_name) }

\* 7. copy the domain default into the expert; dedicated store on opt-out
create_expert_domain_vector(w, expert_name, use_default_domain_vector) ==
  IF expert_name \notin DOMAIN w.experts
  THEN { Out(w, Resp(500, "expert_not_found")) }
  ELSE LET domain_name == w.experts[expert_name].domain
       IN IF domain_name = NoName
          THEN { Out(w, Resp(500, "no_domain")) }
          ELSE UNION {
            IF Raised(dv) THEN { Out(w, Resp(500, dv.r.err)) }
            ELSE IF dv.r.default_vector_id = NoId
            THEN { Out(w, Resp(500, "no_default_store")) }
            ELSE LET default_vector_id == dv.r.default_vector_id
                     w1 == [w EXCEPT !.experts[expert_name].default_vector_id =
                                         default_vector_id]
                     w2 == [w1 EXCEPT !.experts[expert_name].preferred_vector_id =
                                         default_vector_id]
                 IN IF use_default_domain_vector
                    THEN { Out(w2, [Ok EXCEPT
                                      !.default_vector_id = default_vector_id,
                                      !.vector_id = default_vector_id]) }
                    ELSE { IF Raised(o) THEN Out(o.w, Resp(500, o.r.err))
                           ELSE o
                           : o \in update_expert_domain_vector(w1, expert_name) }
            : dv \in get_domain_vector_id(w, domain_name) }

\* 4. insert the expert, append it to the domain's member list, resolve its
\* stores; the last two steps are best-effort.  The response is the row as
\* inserted; skipped is the reason the store resolution was abandoned.
create_expert(w, name, domain, use_default_domain_knowledge) ==
  IF domain \notin DOMAIN w.domains
  THEN { Out(w, Resp(500, "domain_not_found")) }
  ELSE LET row == [domain |-> domain, default_vector_id |-> NoId,
                   preferred_vector_id |-> NoId]
           current_experts == w.domains[domain].expert_names
           w1 == [w EXCEPT !.experts = @ @@ (name :> row)]
           w2 == [w1 EXCEPT !.domains[domain].expert_names =
                     IF name \in Range(current_experts) THEN current_experts
                     ELSE Append(current_experts, name)]
       IN { Out(o.w, [Ok EXCEPT !.warn = o.r.err])
            : o \in create_expert_domain_vector(w2, name,
                                                use_default_domain_knowledge) }

\* rows of vector_stores registered for (expert, client, domain)
existing_vector(w, expert_name, client_name, domain_name) ==
  {i \in DOMAIN w.vector_stores :
     /\ w.vector_stores[i].expert_name = expert_name
     /\ w.vector_stores[i].client_name = client_name
     /\ w.vector_stores[i].domain_name = domain_name}

\* create_expert_client_vector that registers the store it creates
create_expert_client_vector_registers(w, expert_name, client_name) ==
  IF expert_name \notin DOMAIN w.experts
  THEN { Out(w, Resp(500, "expert_not_found")) }
  ELSE LET domain_name == w.experts[expert_name].domain
           found == existing_vector(w, expert_name, client_name, domain_name)
       IN IF domain_name = NoName
          THEN { Out(w, Resp(500, "no_domain")) }
          ELSE IF domain_name \notin DOMAIN w.domains
          THEN { Out(w, Resp(500, "domain_not_found")) }
          ELSE IF found # {}
          THEN { Out(w, [Ok EXCEPT !.vector_id = w.vector_stores[i].vector_id,
                                   !.msg = "existing"])
                 : i \in found }
          ELSE { IF Raised(o) THEN Out(o.w, Resp(500, "upstream"))
                 ELSE Out([o.w EXCEPT !.vector_stores = Append(@,
                             [vector_id |-> o.r.vector_id,
                              domain_name |-> domain_name,
                              expert_name |-> expert_name,
                              client_name |-> client_name,
                              file_ids |-> <<>>, batch_ids |-> <<>>,
                              latest_batch_id |-> NoId, owner |-> "client"])],
                          [o.r EXCEPT !.msg = "created"])
                 : o \in create_vector_store(w,
                            <<expert_name, client_name, domain_name>>) }

\* create_expert_client_vector without the lookup of a registered store
create_expert_client_vector_unchecked(w, expert_name, client_name) ==
  IF expert_name \notin DOMAIN w.experts
  THEN { Out(w, Resp(500, "expert_not_found")) }
  ELSE LET domain_name == w.experts[expert_name].domain
       IN IF domain_name = NoName
          THEN { Out(w, Resp(500, "no_domain")) }
          ELSE IF domain_name \notin DOMAIN w.domains
          THEN { Out(w, Resp(500, "domain_not_found")) }
          ELSE { IF Raised(o) THEN Out(o.w, Resp(500, "upstream"))
                 ELSE Out(o.w, [o.r EXCEPT !.msg = "created"])
                 : o \in create_vector_store(w,
                            <<expert_name, client_name, domain_name>>) }

\* 9. reuse the registered store of (expert, client, domain) or create one;
\* no table is written
create_expert_client_vector(w, expert_name, client_name) ==
  IF expert_name \notin DOMAIN w.experts
  THEN { Out(w, Resp(500, "expert_not_found")) }
  ELSE LET domain_name == w.experts[expert_name].domain
           found == existing_vector(w, expert_name, client_name, domain_name)
       IN IF domain_name = NoName
          THEN { Out(w, Resp(500, "no_domain")) }
          ELSE IF domain_name \notin DOMAIN w.domains
          THEN { Out(w, Resp(500, "domain_not_found")) }
          ELSE IF found # {}
          THEN { Out(w, [Ok EXCEPT !.vector_id = w.vector_stores[i].vector_id,
                                   !.msg = "existing"])
                 : i \in found }
          ELSE { IF Raised(o) THEN Out(o.w, Resp(500, "upstream"))
                 ELSE Out(o.w, [o.r EXCEPT !.msg = "created"])
                 : o \in create_vector_store(w,
                            <<expert_name, client_name, domain_name>>) }

\* ------------------------------------------------- 10./13. adding files
\* rows of vector_stores with a given vector_id
existing_entry(w, vector_id) ==
  {i \in DOMAIN w.vector_stores : w.vector_stores[i].vector_id = vector_id}

\* supabase.table("vector_stores").insert: the row is appended
insert_vector_store(w, row) ==
  [w EXCEPT !.vector_stores = Append(@, row)]

\* the row of add-files without the batch of the ingestion
StoreRow_without_batch(vector_id, domain_name, expert_name, client_name, file_ids, batch_id, owner) ==
  [vector_id |-> vector_id, domain_name |-> domain_name,
   expert_name |-> expert_name, client_name |-> client_name,
   file_ids |-> file_ids, batch_ids |-> <<>>,
   latest_batch_id |-> NoId, owner |-> owner]

\* the row add-files inserts for a store
StoreRow(vector_id, domain_name, expert_name, client_name, file_ids, batch_id, owner) ==
  [vector_id |-> vector_id, domain_name |-> domain_name,
   expert_name |-> expert_name, client_name |-> client_name,
   file_ids |-> file_ids,
   batch_ids |-> IF batch_id # NoId THEN <<batch_id>> ELSE <<>>,
   latest_batch_id |-> batch_id, owner |-> owner]

\* the check for an existing row and the insert; the "already exists" error
\* is raised inside the handler's own try block and goes no further
register_vector_store(w, row) ==
  IF existing_entry(w, row.vector_id) # {} THEN w
  ELSE insert_vector_store(w, row)

add_files_to_domain_vector(w, domain_name, document_urls) ==
  IF domain_name \notin DOMAIN w.domains
  THEN { Out(w, Resp(500, "domain_not_found")) }
  ELSE LET default_vector_id == w.domains[domain_name].default_vector_id
       IN IF default_vector_id = NoId
          THEN { Out(w, Resp(500, "no_default_store")) }
          ELSE { IF Raised(a) THEN a
                 ELSE LET row == StoreRow(default_vector_id, domain_name,
                                   NoName, NoName, a.r.file_ids, a.r.batch_id,
                                   "domain")
                      IN Out(register_vector_store(a.w, row),
                             [a.r EXCEPT !.vector_id = default_vector_id,
                                !.warn = IF existing_entry(a.w,
                                               default_vector_id) # {}
                                         THEN "store_record_exists"
                                         ELSE "none"])
                 : a \in add_documents_to_domain_vector_store(w,
                           default_vector_id, document_urls, domain_name) }

\* the store an expert request ingests into
resolve_expert_vector(w, expert_name, use_for_specific_client, client_name) ==
  IF use_for_specific_client
  THEN IF client_name = NoName
       THEN { Out(w, Resp(500, "missing_client_name")) }
       ELSE create_expert_client_vector(w, expert_name, client_name)
  ELSE update_expert_domain_vector(w, expert_name)

\* ingestion into the resolved store
ingest_expert_files(w, vector_id, expert_name, use_for_specific_client, client_name, document_urls) ==
  IF vector_id = NoId
  THEN { Out(w, Resp(500, "no_vector_store")) }
  ELSE IF expert_name \notin DOMAIN w.experts
  THEN { Out(w, Resp(500, "expert_not_found")) }
  ELSE add_documents_to_expert_vector_store(w, vector_id, document_urls,
          w.experts[expert_name].domain, expert_name,
          IF use_for_specific_client THEN client_name ELSE NoName)

\* the row of an expert request with the owner fixed to expert
ExpertStoreRow_owner_expert(w, vector_id, expert_name, use_for_specific_client, client_name, file_ids, batch_id) ==
  LET cn == IF use_for_specific_client THEN client_name ELSE NoName
  IN StoreRow(vector_id, w.experts[expert_name].domain, expert_name, cn,
              file_ids, batch_id, "expert")

\* the row an expert request registers
ExpertStoreRow(w, vector_id, expert_name, use_for_specific_client, client_name, file_ids, batch_id) ==
  LET cn == IF use_for_specific_client THEN client_name ELSE NoName
  IN StoreRow(vector_id, w.experts[expert_name].domain, expert_name, cn,
              file_ids, batch_id, IF cn # NoName THEN "client" ELSE "expert")

add_files_to_expert_vector(w, expert_name, use_for_specific_client, client_name, document_urls) ==
  UNION {
    IF Raised(v) THEN { Out(v.w, Resp(500, v.r.err)) }
    ELSE { IF Raised(a) THEN a
           ELSE LET row == ExpertStoreRow(a.w, v.r.vector_id, expert_name,
                             use_for_specific_client, client_name,
                             a.r.file_ids, a.r.batch_id)
                IN Out(register_vector_store(a.w, row),
                       [a.r EXCEPT !.vector_id = v.r.vector_id,
                          !.warn = IF existing_entry(a.w, v.r.vector_id) # {}
                                   THEN "store_record_exists" ELSE "none"])
           : a \in ingest_expert_files(v.w, v.r.vector_id, expert_name,
                     use_for_specific_client, client_name, document_urls) }
    : v \in resolve_expert_vector(w, expert_name, use_for_specific_client,
                                  client_name) }

\* --------------------------------------------------- 12. editing a store
\* delete_store_file that detaches the file and leaves its content
delete_store_file_detach_only(w, vector_store_id, file_id) ==
  IF vector_store_id \in w.engine.stores
     /\ file_id \in w.engine.store_files[vector_store_id]
  THEN [w EXCEPT !.engine.store_files[vector_store_id] = @ \ {file_id}]
  ELSE w

\* client.vector_stores.files.delete, then client.files.delete; a failure of
\* the first skips the second, and neither failure goes further
delete_store_file(w, vector_store_id, file_id) ==
  IF vector_store_id \in w.engine.stores
     /\ file_id \in w.engine.store_files[vector_store_id]
  THEN [w EXCEPT !.engine.store_files[vector_store_id] = @ \ {file_id},
                 !.engine.files = @ \ {file_id}]
  ELSE w

RECURSIVE delete_store_files(_, _, _)
delete_store_files(w, vector_store_id, files_to_delete) ==
  IF files_to_delete = <<>> THEN w
  ELSE delete_store_files(
         delete_store_file(w, vector_store_id, Head(files_to_delete)),
         vector_store_id, Tail(files_to_delete))

\* the url -> file id dictionaries the documents query can give: one entry
\* per url, of any of the rows that carry it (the row order is the
\* datastore's)
url_to_file_id(existing_docs) ==
  LET existing_urls == {doc.document_link : doc \in existing_docs}
      ids == {doc.openai_file_id : doc \in existing_docs}
  IN { m \in [existing_urls -> ids] :
         \A u \in existing_urls :
           \E doc \in existing_docs : /\ doc.document_link = u
                                      /\ doc.openai_file_id = m[u] }

\* the batch edit_vector_store submits: kept and new content ids together
edit_batch_ids(kept_file_ids, new_file_ids) == kept_file_ids \o new_file_ids

edit_vector_store(w, vector_store_id, file_ids, document_urls, domain_name, expert_name, client_name) ==
  LET existing_docs == {doc \in w.documents :
                          doc.openai_file_id \in Range(file_ids)}
      existing_urls == {doc.document_link : doc \in existing_docs}
      IsNew(url) == url \notin existing_urls
      IsKept(url) == url \in existing_urls
      new_urls == SelectSeq(document_urls, IsNew)
      kept_urls == SelectSeq(document_urls, IsKept)
      f == create_files_for_vector_store(w, new_urls, domain_name,
                                         expert_name, client_name)
      new_file_ids == f.r.file_ids
  IN UNION {
       LET kept_file_ids == [i \in DOMAIN kept_urls |->
                               existing_url_to_file_id[kept_urls[i]]]
           all_file_ids == edit_batch_ids(kept_file_ids, new_file_ids)
           Stale(file_id) == /\ file_id \notin Range(kept_file_ids)
                             /\ file_id \notin Range(new_file_ids)
           files_to_delete == SelectSeq(file_ids, Stale)
       IN { IF Raised(b) THEN Out(f.w, Resp(500, "upstream"))
            ELSE LET w1 == [b.w EXCEPT !.documents =
                              {doc \in @ : doc.openai_file_id
                                             \notin Range(files_to_delete)}]
                     w2 == delete_store_files(w1, vector_store_id,
                                              files_to_delete)
                 IN Out(w2, [b.r EXCEPT !.file_ids = new_file_ids,
                                        !.all_file_ids = all_file_ids])
            : b \in add_batch_to_vector_store(f.w, vector_store_id,
                                              all_file_ids) }
       : existing_url_to_file_id \in url_to_file_id(existing_docs) }

\* batch_ids that keeps the batch of the last edit only
merge_batch_ids_overwrite(existing_batch_ids, batch_id) ==
  IF batch_id # NoId THEN <<batch_id>> ELSE existing_batch_ids

\* batch_ids after an edit
merge_batch_ids(existing_batch_ids, batch_id) ==
  IF batch_id # NoId
  THEN IF existing_batch_ids # <<>>
       THEN IF batch_id \notin Range(existing_batch_ids)
            THEN existing_batch_ids \o <<batch_id>>
            ELSE existing_batch_ids
       ELSE <<batch_id>>
  ELSE existing_batch_ids

update_vector_store(w, vector_id, document_urls) ==
  LET found == existing_entry(w, vector_id)
  IN IF found = {}
     THEN { Out(w, Resp(500, "store_not_found")) }
     ELSE UNION {
       LET vector_store == w.vector_stores[k]
       IN { IF Raised(e) THEN e
            ELSE LET batch_id == e.r.batch_id
                     upd(r) == IF r.vector_id # vector_id THEN r
                               ELSE [r EXCEPT
                                  !.file_ids = e.r.all_file_ids,
                                  !.batch_ids = merge_batch_ids(
                                      vector_store.batch_ids, batch_id),
                                  !.latest_batch_id =
                                      IF batch_id # NoId THEN batch_id
                                      ELSE vector_store.latest_batch_id]
                 IN Out([e.w EXCEPT !.vector_stores =
                            [i \in DOMAIN @ |-> upd(@[i])]],
                        [e.r EXCEPT !.vector_id = vector_id])
            : e \in edit_vector_store(w, vector_id, vector_store.file_ids,
                      document_urls, vector_store.domain_name,
                      vector_store.expert_name, vector_store.client_name) }
       : k \in found }

\* ------------------------------------------------------ 14./15. deleting
\* delete_vector_id without the comparison with the preferred store
delete_vector_id_unchecked(w, expert_name, vector_id) ==
  IF expert_name \notin DOMAIN w.experts
  THEN { Out(w, Resp(500, "expert_not_found")) }
  ELSE { IF Raised(o) THEN Out(o.w, Resp(500, "upstream"))
         ELSE Out([o.w EXCEPT !.experts[expert_name].preferred_vector_id =
                                 NoId],
                  [Ok EXCEPT !.vector_id = vector_id])
         : o \in delete_vector_index(w, vector_id) }

delete_vector_id(w, expert_name, vector_id) ==
  IF expert_name \notin DOMAIN w.experts
  THEN { Out(w, Resp(500, "expert_not_found")) }
  ELSE IF w.experts[expert_name].preferred_vector_id # vector_id
  THEN { Out(w, Resp(500, "vector_id_mismatch")) }
  ELSE { IF Raised(o) THEN Out(o.w, Resp(500, "upstream"))
         ELSE Out([o.w EXCEPT !.experts[expert_name].preferred_vector_id =
                                 NoId],
                  [Ok EXCEPT !.vector_id = vector_id])
         : o \in delete_vector_index(w, vector_id) }

\* the owner a delete request addresses
delete_owner(domain_name, expert_name, client_name) ==
  IF domain_name # NoName /\ expert_name = NoName /\ client_name = NoName
  THEN "domain"
  ELSE IF expert_name # NoName /\ client_name = NoName THEN "expert"
  ELSE IF expert_name # NoName /\ client_name # NoName THEN "client"
  ELSE "invalid"

\* delete_blocked without the check of the experts of a domain
delete_blocked_clients_only(w, owner, domain_name, expert_name) ==
  /\ owner = "expert"
  /\ \E i \in DOMAIN w.vector_stores :
       /\ w.vector_stores[i].expert_name = expert_name
       /\ w.vector_stores[i].client_name # NoName

\* whether dependents block the deletion of an owner's store
delete_blocked(w, owner, domain_name, expert_name) ==
  \/ /\ owner = "domain"
     /\ \E e \in DOMAIN w.experts : w.experts[e].domain = domain_name
  \/ /\ owner = "expert"
     /\ \E i \in DOMAIN w.vector_stores :
          /\ w.vector_stores[i].expert_name = expert_name
          /\ w.vector_stores[i].client_name # NoName

delete_vector_memory(w, domain_name, expert_name, client_name) ==
  LET owner == delete_owner(domain_name, expert_name, client_name)
      Match(r) ==
        \/ owner = "domain" /\ r.domain_name = domain_name
                            /\ r.owner = "domain"
        \/ owner = "expert" /\ r.expert_name = expert_name
                            /\ r.owner = "expert"
        \/ owner = "client" /\ r.expert_name = expert_name
                            /\ r.client_name = client_name
                            /\ r.owner = "client"
      result == {i \in DOMAIN w.vector_stores : Match(w.vector_stores[i])}
  IN IF owner = "invalid"
     THEN { Out(w, Resp(400, "invalid_parameters")) }
     ELSE IF result = {}
     THEN { Out(w, Resp(404, "store_not_found")) }
     ELSE UNION {
       LET vector_id == w.vector_stores[k].vector_id
           Keep(r) == r.vector_id # vector_id
       IN IF vector_id = NoId
          THEN { Out(w, Resp(404, "no_vector_id")) }
          ELSE IF delete_blocked(w, owner, domain_name, expert_name)
          THEN { Out(w, Resp(400, "blocked")) }
          ELSE { IF Raised(o) THEN Out(o.w, Resp(500, "upstream"))
                 ELSE LET w1 == IF owner = "domain"
                                THEN [o.w EXCEPT
                                   !.domains[domain_name].default_vector_id
                                       = NoId]
                                ELSE IF owner = "expert"
                                THEN [o.w EXCEPT
                                   !.experts[expert_name].preferred_vector_id
                                       = NoId]
                                ELSE o.w
                      IN Out([w1 EXCEPT !.vector_stores = SelectSeq(@, Keep)],
                             [Ok EXCEPT !.vector_id = vector_id])
                 : o \in delete_vector_index(w, vector_id) }
       : k \in result }

\* ------------------------------------------------------------- 17. query
\* client.responses.create: the answer, or an upstream failure; a store the
\* engine does not hold is a failure.  vector_store_ids is the list handed to
\* the file_search tool (empty: no tool, the model answers alone).
query_vector_index(w, vector_store_ids) ==
  LET asked(r) == [r EXCEPT !.queried = TRUE,
                            !.vector_store_ids = vector_store_ids]
  IN IF Range(vector_store_ids) \subseteq w.engine.stores
     THEN { Out(w, asked(Ok)), Out(w, asked(Resp(500, "upstream"))) }
     ELSE { Out(w, asked(Resp(500, "upstream"))) }

\* query_expert that reads the expert's default store for expert memory
query_expert_default_for_expert(w, expert_name, memory_type, client_name) ==
  IF expert_name \notin DOMAIN w.experts
  THEN { Out(w, Resp(500, "expert_not_found")) }
  ELSE LET expert_data == w.experts[expert_name]
           domain_name == expert_data.domain
           found == {i \in DOMAIN w.vector_stores :
                       /\ w.vector_stores[i].expert_name = expert_name
                       /\ w.vector_stores[i].client_name = client_name}
       IN IF memory_type = "llm" THEN query_vector_index(w, <<>>)
          ELSE IF memory_type = "domain"
          THEN IF domain_name = NoName
               THEN { Out(w, Resp(500, "no_domain")) }
               ELSE IF domain_name \notin DOMAIN w.domains
               THEN { Out(w, Resp(500, "domain_not_found")) }
               ELSE IF w.domains[domain_name].default_vector_id = NoId
               THEN { Out(w, Resp(500, "no_default_store")) }
               ELSE query_vector_index(w,
                      << w.domains[domain_name].default_vector_id >>)
          ELSE IF memory_type = "expert"
          THEN IF expert_data.default_vector_id = NoId
               THEN { Out(w, Resp(500, "no_vector_store")) }
               ELSE query_vector_index(w, << expert_data.default_vector_id >>)
          ELSE IF memory_type = "client"
          THEN IF client_name = NoName
               THEN { Out(w, Resp(500, "missing_client_name")) }
               ELSE IF found = {}
               THEN { Out(w, Resp(500, "store_not_found")) }
               ELSE UNION {
                      IF w.vector_stores[i].vector_id = NoId
                      THEN { Out(w, Resp(500, "no_vector_id")) }
                      ELSE query_vector_index(w,
                             << w.vector_stores[i].vector_id >>)
                      : i \in found }
          ELSE { Out(w, Resp(500, "invalid_memory_type")) }

\* the store list follows the memory type; every failure, validation or
\* upstream, leaves the handler as a 500
query_expert(w, expert_name, memory_type, client_name) ==
  IF expert_name \notin DOMAIN w.experts
  THEN { Out(w, Resp(500, "expert_not_found")) }
  ELSE LET expert_data == w.experts[expert_name]
           domain_name == expert_data.domain
           found == {i \in DOMAIN w.vector_stores :
                       /\ w.vector_stores[i].expert_name = expert_name
                       /\ w.vector_stores[i].client_name = client_name}
       IN IF memory_type = "llm" THEN query_vector_index(w, <<>>)
          ELSE IF memory_type = "domain"
          THEN IF domain_name = NoName
               THEN { Out(w, Resp(500, "no_domain")) }
               ELSE IF domain_name \notin DOMAIN w.domains
               THEN { Out(w, Resp(500, "domain_not_found")) }
               ELSE IF w.domains[domain_name].default_vector_id = NoId
               THEN { Out(w, Resp(500, "no_default_store")) }
               ELSE query_vector_index(w,
                      << w.domains[domain_name].default_vector_id >>)
          ELSE IF memory_type = "expert"
          THEN IF expert_data.preferred_vector_id = NoId
               THEN { Out(w, Resp(500, "no_vector_store")) }
               ELSE query_vector_index(w, << expert_data.preferred_vector_id >>)
          ELSE IF memory_type = "client"
          THEN IF client_name = NoName
               THEN { Out(w, Resp(500, "missing_client_name")) }
               ELSE IF found = {}
               THEN { Out(w, Resp(500, "store_not_found")) }
               ELSE UNION {
                      IF w.vector_stores[i].vector_id = NoId
                      THEN { Out(w, Resp(500, "no_vector_id")) }
                      ELSE query_vector_index(w,
                             << w.vector_stores[i].vector_id >>)
                      : i \in found }
          ELSE { Out(w, Resp(500, "invalid_memory_type")) }

\* ================================================================ actions
NameOrNone(S) == S \cup {NoName}

\* the store identifiers a request can name: every one issued so far and one
\* the engine never issued
StoreIds == 1..engine.next_store

IdleReq == [pc |-> "idle", expert |-> NoName, client |-> NoName,
            urls |-> <<>>, vector_id |-> NoId, file_ids |-> <<>>,
            batch_id |-> NoId, code |-> 0]

Request(op, domain, expert, client, flag, id, urls) ==
  [op |-> op, domain |-> domain, expert |-> expert, client |-> client,
   flag |-> flag, id |-> id, urls |-> urls, memory_type |-> "none"]

NoRequest == Request("none", NoName, NoName, NoName, FALSE, NoId, <<>>)

\* the tables and the engine become w
Install(w) ==
  /\ domains' = w.domains
  /\ experts' = w.experts
  /\ vector_stores' = w.vector_stores
  /\ documents' = w.documents
  /\ engine' = w.engine

\* the request q returns: its effects and its response become visible
Commit(o, q) ==
  /\ served' = served + 1
  /\ lastOp' = [q |-> q, r |-> o.r]
  /\ Install(o.w)

DoCreateDomain ==
  /\ served < MaxRequests
  /\ \E d \in DomainNames : \E o \in create_domain(World, d) :
       /\ Commit(o, Request("create_domain", d, NoName, NoName, FALSE, NoId, <<>>))
       /\ UNCHANGED <<optedIn, req>>

DoGetDomainVectorId ==
  /\ served < MaxRequests
  /\ \E d \in DomainNames : \E o \in get_domain_vector_id(World, d) :
       /\ Commit(o, Request("get_domain_vector_id", d, NoName, NoName, FALSE,
                            NoId, <<>>))
       /\ UNCHANGED <<optedIn, req>>

\* experts.name identifies the row in every handler; a name is registered once
DoCreateExpert ==
  /\ served < MaxRequests
  /\ \E e \in ExpertNames \ DOMAIN experts : \E d \in DomainNames :
     \E flag \in BOOLEAN : \E o \in create_expert(World, e, d, flag) :
       /\ Commit(o, Request("create_expert", d, e, NoName, flag, NoId, <<>>))
       /\ optedIn' = IF flag /\ e \in DOMAIN o.w.experts
                     THEN optedIn \cup {e} ELSE optedIn
       /\ UNCHANGED req

DoCreateExpertDomainVector ==
  /\ served < MaxRequests
  /\ \E e \in ExpertNames : \E flag \in BOOLEAN :
     \E o \in create_expert_domain_vector(World, e, flag) :
       /\ Commit(o, Request("create_expert_domain_vector", NoName, e,
                            NoName, flag, NoId, <<>>))
       /\ UNCHANGED <<optedIn, req>>

DoUpdateExpertDomainVector ==
  /\ served < MaxRequests
  /\ \E e \in ExpertNames : \E o \in update_expert_domain_vector(World, e) :
       /\ Commit(o, Request("update_expert_domain_vector", NoName, e,
                            NoName, FALSE, NoId, <<>>))
       /\ UNCHANGED <<optedIn, req>>

DoCreateExpertClientVector ==
  /\ served < MaxRequests
  /\ \E e \in ExpertNames : \E c \in ClientNames :
     \E o \in create_expert_client_vector(World, e, c) :
       /\ Commit(o, Request("create_expert_client_vector", NoName, e, c,
                            FALSE, NoId, <<>>))
       /\ UNCHANGED <<optedIn, req>>

DoAddFilesToDomainVector ==
  /\ served < MaxRequests
  /\ \E d \in DomainNames : \E urls \in Mappings :
     \E o \in add_files_to_domain_vector(World, d, urls) :
       /\ Commit(o, Request("add_files_to_domain_vector", d, NoName,
                            NoName, FALSE, NoId, urls))
       /\ UNCHANGED <<optedIn, req>>

DoAddFilesToExpertVector ==
  /\ served < MaxRequests
  /\ \E e \in ExpertNames : \E flag \in BOOLEAN :
     \E c \in NameOrNone(ClientNames) : \E urls \in Mappings :
     \E o \in add_files_to_expert_vector(World, e, flag, c, urls) :
       /\ Commit(o, Request("add_files_to_expert_vector", NoName, e, c,
                            flag, NoId, urls))
       /\ UNCHANGED <<optedIn, req>>

DoUpdateVectorStore ==
  /\ served < MaxRequests
  /\ \E id \in StoreIds : \E urls \in Mappings :
     \E o \in update_vector_store(World, id, urls) :
       /\ Commit(o, Request("update_vector_store", NoName, NoName, NoName,
                            FALSE, id, urls))
       /\ UNCHANGED <<optedIn, req>>

DoDeleteVectorId ==
  /\ served < MaxRequests
  /\ \E e \in ExpertNames : \E id \in StoreIds :
     \E o \in delete_vector_id(World, e, id) :
       /\ Commit(o, Request("delete_vector_id", NoName, e, NoName, FALSE, id,
                            <<>>))
       /\ UNCHANGED <<optedIn, req>>

DoDeleteVectorMemory ==
  /\ served < MaxRequests
  /\ \E d \in NameOrNone(DomainNames) : \E e \in NameOrNone(ExpertNames) :
     \E c \in NameOrNone(ClientNames) :
     \E o \in delete_vector_memory(World, d, e, c) :
       /\ Commit(o, Request("delete_vector_memory", d, e, c, FALSE, NoId,
                            <<>>))
       /\ UNCHANGED <<optedIn, req>>

\* the memory types a query can name: the four the handler knows and one it
\* does not
MemoryTypes == {"llm", "domain", "expert", "client", "other"}

\* a query writes no table and nothing in the engine, so the requests that
\* can follow it are those that can follow the state it is served in: it is
\* explored as the last request of a behaviour
DoQueryExpert ==
  /\ served < MaxRequests
  /\ \E e \in ExpertNames : \E m \in MemoryTypes :
     \E c \in NameOrNone(ClientNames) :
     \E o \in query_expert(World, e, m, c) :
       /\ lastOp' = [q |-> [Request("query_expert", NoName, e, c, FALSE,
                                    NoId, <<>>) EXCEPT !.memory_type = m],
                     r |-> o.r]
       /\ served' = MaxRequests
       /\ Install(o.w)
       /\ UNCHANGED <<optedIn, req>>

\* ========================================================== specification
\* empty tables and an engine that has issued nothing
EmptyWorld ==
  [domains |-> <<>>, experts |-> <<>>, vector_stores |-> <<>>,
   documents |-> {},
   engine |-> [stores |-> {}, store_names |-> <<>>, store_files |-> <<>>,
               files |-> {}, next_store |-> 1, next_file |-> 1,
               next_batch |-> 1]]

\* the tables and the engine are w
Holds(w) ==
  /\ domains = w.domains
  /\ experts = w.experts
  /\ vector_stores = w.vector_stores
  /\ documents = w.documents
  /\ engine = w.engine

Init ==
  /\ Holds(EmptyWorld)
  /\ optedIn = {}
  /\ served = 0
  /\ lastOp = [q |-> NoRequest, r |-> Ok]
  /\ req = [p \in Procs |-> IdleReq]

Next ==
  \/ DoCreateDomain
  \/ DoGetDomainVectorId
  \/ DoCreateExpert
  \/ DoCreateExpertDomainVector
  \/ DoUpdateExpertDomainVector
  \/ DoCreateExpertClientVector
  \/ DoAddFilesToDomainVector
  \/ DoAddFilesToExpertVector
  \/ DoUpdateVectorStore
  \/ DoDeleteVectorId
  \/ DoDeleteVectorMemory

Spec == Init /\ [][Next]_vars

\* the request surface with the query endpoint
NextQuery == Next \/ DoQueryExpert

SpecQuery == Init /\ [][NextQuery]_vars

\* ------------------------------------------- two requests at the same time
\* add_files_to_expert_vector for one (expert, client) pair, served for two
\* callers at once: each datastore or engine call of the handler is a step,
\* and the steps of the two requests interleave freely.
RaceExpert == "e1"
RaceClient == "c1"

RaceDomain == experts[RaceExpert].domain

Goto(p, r) == req' = [req EXCEPT ![p] = r]

\* the request arrives with its document mapping
RaceArrive(p) ==
  /\ req[p].pc = "idle"
  /\ \E urls \in Mappings :
       Goto(p, [req[p] EXCEPT !.pc = "lookup", !.expert = RaceExpert,
                              !.client = RaceClient, !.urls = urls])
  /\ UNCHANGED <<domains, experts, vector_stores, documents, engine,
                 optedIn, served, lastOp>>

\* create_expert_client_vector: the select on vector_stores
RaceLookup(p) ==
  /\ req[p].pc = "lookup"
  /\ LET found == existing_vector(World, req[p].expert, req[p].client,
                                  RaceDomain)
     IN IF found # {}
        THEN \E i \in found :
               Goto(p, [req[p] EXCEPT !.pc = "files",
                          !.vector_id = vector_stores[i].vector_id])
        ELSE Goto(p, [req[p] EXCEPT !.pc = "create"])
  /\ UNCHANGED <<domains, experts, vector_stores, documents, engine,
                 optedIn, served, lastOp>>

\* create_expert_client_vector: the store is created in the engine
RaceCreateStore(p) ==
  /\ req[p].pc = "create"
  /\ \E o \in create_vector_store(World,
                 <<req[p].expert, req[p].client, RaceDomain>>) :
       /\ Install(o.w)
       /\ IF Raised(o)
          THEN Goto(p, [req[p] EXCEPT !.pc = "done", !.code = 500])
          ELSE Goto(p, [req[p] EXCEPT !.pc = "files",
                                      !.vector_id = o.r.vector_id])
  /\ UNCHANGED <<optedIn, served, lastOp>>

\* add_documents_to_expert_vector_store: the next document becomes a file
RaceCreateFile(p) ==
  /\ req[p].pc = "files"
  /\ req[p].urls # <<>>
  /\ LET o == create_file_for_vector_store(World, Head(req[p].urls),
                 RaceDomain, req[p].expert, req[p].client)
     IN /\ Install(o.w)
        /\ Goto(p, [req[p] EXCEPT !.urls = Tail(@),
                                  !.file_ids = @ \o o.r.file_ids])
  /\ UNCHANGED <<optedIn, served, lastOp>>

\* add_documents_to_expert_vector_store: the files are submitted as a batch
RaceBatch(p) ==
  /\ req[p].pc = "files"
  /\ req[p].urls = <<>>
  /\ \E b \in add_batch_to_vector_store(World, req[p].vector_id,
                                         req[p].file_ids) :
       /\ Install(b.w)
       /\ IF Raised(b)
          THEN Goto(p, [req[p] EXCEPT !.pc = "done", !.code = 500])
          ELSE Goto(p, [req[p] EXCEPT !.pc = "check",
                                      !.batch_id = b.r.batch_id])
  /\ UNCHANGED <<optedIn, served, lastOp>>

\* the select on vector_stores by vector_id; a row found ends the request
RaceCheck(p) ==
  /\ req[p].pc = "check"
  /\ IF existing_entry(World, req[p].vector_id) # {}
     THEN Goto(p, [req[p] EXCEPT !.pc = "done", !.code = 200])
     ELSE Goto(p, [req[p] EXCEPT !.pc = "insert"])
  /\ UNCHANGED <<domains, experts, vector_stores, documents, engine,
                 optedIn, served, lastOp>>

\* the insert into vector_stores
RaceInsert(p) ==
  /\ req[p].pc = "insert"
  /\ Install(insert_vector_store(World,
                ExpertStoreRow(World, req[p].vector_id, req[p].expert, TRUE,
                               req[p].client, req[p].file_ids,
                               req[p].batch_id)))
  /\ Goto(p, [req[p] EXCEPT !.pc = "done", !.code = 200])
  /\ UNCHANGED <<optedIn, served, lastOp>>

\* a domain and an expert of it have been created; the pair has no store
InitRace ==
  /\ \E flag \in BOOLEAN :
     \E d \in create_domain(EmptyWorld, "d1") :
     \E e \in create_expert(d.w, RaceExpert, "d1", flag) :
       /\ Holds(e.w)
       /\ optedIn = IF flag THEN {RaceExpert} ELSE {}
       /\ lastOp = [q |-> Request("create_expert", "d1", RaceExpert, NoName,
                                  flag, NoId, <<>>),
                    r |-> e.r]
  /\ served = 2
  /\ req = [p \in Procs |-> IdleReq]

NextRace ==
  \E p \in Procs :
    \/ RaceArrive(p)
    \/ RaceLookup(p)
    \/ RaceCreateStore(p)
    \/ RaceCreateFile(p)
    \/ RaceBatch(p)
    \/ RaceCheck(p)
    \/ RaceInsert(p)

SpecRace == InitRace /\ [][NextRace]_vars

\* ------------------------------- two store resolutions at the same time
\* update_expert_domain_vector for one expert, served for two callers at
\* once: the select of the expert row, the creation of the store and the
\* update of the expert row are the steps, and they interleave freely.
IdleUpdate == [pc |-> "idle", expert |-> NoName, vector_id |-> NoId,
               code |-> 0]

UpdateArrive(p) ==
  /\ req[p].pc = "idle"
  /\ Goto(p, [req[p] EXCEPT !.pc = "select", !.expert = RaceExpert])
  /\ UNCHANGED <<domains, experts, vector_stores, documents, engine,
                 optedIn, served, lastOp>>

\* the select on experts: a preferred store other than the default is the
\* answer, otherwise a store is to be created
UpdateSelect(p) ==
  /\ req[p].pc = "select"
  /\ LET expert_data == experts[req[p].expert]
         preferred_vector_id == expert_data.preferred_vector_id
     IN IF preferred_vector_id # NoId
           /\ preferred_vector_id # expert_data.default_vector_id
        THEN Goto(p, [req[p] EXCEPT !.pc = "done", !.code = 200,
                                    !.vector_id = preferred_vector_id])
        ELSE Goto(p, [req[p] EXCEPT !.pc = "create"])
  /\ UNCHANGED <<domains, experts, vector_stores, documents, engine,
                 optedIn, served, lastOp>>

\* the store <expert>_<domain> is created in the engine
UpdateCreateStore(p) ==
  /\ req[p].pc = "create"
  /\ \E o \in create_vector_store(World, <<req[p].expert, RaceDomain>>) :
       /\ Install(o.w)
       /\ IF Raised(o)
          THEN Goto(p, [req[p] EXCEPT !.pc = "done", !.code = 500])
          ELSE Goto(p, [req[p] EXCEPT !.pc = "write",
                                      !.vector_id = o.r.vector_id])
  /\ UNCHANGED <<optedIn, served, lastOp>>

\* the update of the expert's preferred store; the request returns its store
UpdateWritePreferred(p) ==
  /\ req[p].pc = "write"
  /\ experts' = [experts EXCEPT
                   ![req[p].expert].preferred_vector_id = req[p].vector_id]
  /\ Goto(p, [req[p] EXCEPT !.pc = "done", !.code = 200])
  /\ UNCHANGED <<domains, vector_stores, documents, engine, optedIn, served,
                 lastOp>>

\* a domain and an expert of it have been created, with or without a
\* dedicated store
InitRaceUpdate ==
  /\ \E flag \in BOOLEAN :
     \E d \in create_domain(EmptyWorld, "d1") :
     \E e \in create_expert(d.w, RaceExpert, "d1", flag) :
       /\ Holds(e.w)
       /\ optedIn = IF flag THEN {RaceExpert} ELSE {}
       /\ lastOp = [q |-> Request("create_expert", "d1", RaceExpert, NoName,
                                  flag, NoId, <<>>),
                    r |-> e.r]
  /\ served = 2
  /\ req = [p \in Procs |-> IdleUpdate]

NextRaceUpdate ==
  \E p \in Procs :
    \/ UpdateArrive(p)
    \/ UpdateSelect(p)
    \/ UpdateCreateStore(p)
    \/ UpdateWritePreferred(p)

SpecRaceUpdate == InitRaceUpdate /\ [][NextRaceUpdate]_vars

\* -------------------------------- two expert creations at the same time
\* create_expert for two experts of one domain, served for two callers at
\* once: the insert of the expert, the select of the domain's member list,
\* the update of the list and the store resolution are the steps.
RaceNewExperts == [p1 |-> "e1", p2 |-> "e2"]

IdleCreate == [pc |-> "idle", expert |-> NoName, flag |-> FALSE,
               current_experts |-> <<>>, code |-> 0]

\* the request arrives; the domain is looked up
CreateArrive(p) ==
  /\ req[p].pc = "idle"
  /\ \E flag \in BOOLEAN :
       IF "d1" \in DOMAIN domains
       THEN Goto(p, [req[p] EXCEPT !.pc = "insert", !.flag = flag,
                                   !.expert = RaceNewExperts[p]])
       ELSE Goto(p, [req[p] EXCEPT !.pc = "done", !.code = 500,
                                   !.expert = RaceNewExperts[p]])
  /\ UNCHANGED <<domains, experts, vector_stores, documents, engine,
                 optedIn, served, lastOp>>

\* the insert into experts
CreateInsertExpert(p) ==
  /\ req[p].pc = "insert"
  /\ experts' = experts @@ (req[p].expert :>
                   [domain |-> "d1", default_vector_id |-> NoId,
                    preferred_vector_id |-> NoId])
  /\ optedIn' = IF req[p].flag THEN optedIn \cup {req[p].expert} ELSE optedIn
  /\ Goto(p, [req[p] EXCEPT !.pc = "members"])
  /\ UNCHANGED <<domains, vector_stores, documents, engine, served, lastOp>>

\* the select of the domain's expert_names
CreateReadMembers(p) ==
  /\ req[p].pc = "members"
  /\ Goto(p, [req[p] EXCEPT !.pc = "append",
                            !.current_experts = domains["d1"].expert_names])
  /\ UNCHANGED <<domains, experts, vector_stores, documents, engine,
                 optedIn, served, lastOp>>

\* the list read, with the name appended if absent, is written back whole
CreateWriteMembers(p) ==
  /\ req[p].pc = "append"
  /\ LET current_experts == req[p].current_experts
     IN domains' = [domains EXCEPT !["d1"].expert_names =
                      IF req[p].expert \in Range(current_experts)
                      THEN current_experts
                      ELSE Append(current_experts, req[p].expert)]
  /\ Goto(p, [req[p] EXCEPT !.pc = "resolve"])
  /\ UNCHANGED <<experts, vector_stores, documents, engine, optedIn, served,
                 lastOp>>

\* create_expert_domain_vector, whatever its outcome; the request returns
CreateResolveStore(p) ==
  /\ req[p].pc = "resolve"
  /\ \E o \in create_expert_domain_vector(World, req[p].expert, req[p].flag) :
       Install(o.w)
  /\ Goto(p, [req[p] EXCEPT !.pc = "done", !.code = 200])
  /\ UNCHANGED <<optedIn, served, lastOp>>

\* a domain has been created and has no expert
InitRaceCreate ==
  /\ \E d \in create_domain(EmptyWorld, "d1") :
       /\ Holds(d.w)
       /\ lastOp = [q |-> Request("create_domain", "d1", NoName, NoName,
                                  FALSE, NoId, <<>>),
                    r |-> d.r]
  /\ optedIn = {}
  /\ served = 1
  /\ req = [p \in Procs |-> IdleCreate]

NextRaceCreate ==
  \E p \in Procs :
    \/ CreateArrive(p)
    \/ CreateInsertExpert(p)
    \/ CreateReadMembers(p)
    \/ CreateWriteMembers(p)
    \/ CreateResolveStore(p)

SpecRaceCreate == InitRaceCreate /\ [][NextRaceCreate]_vars

\* ================================================================= claims
OwnerTuple(r) == <<r.domain_name, r.expert_name, r.client_name>>

\* rows of the registry (as it is now) kept for an (expert, client) pair
ClientRows(e, c) ==
  {i \in DOMAIN vector_stores : /\ vector_stores[i].expert_name = e
                                /\ vector_stores[i].client_name = c}

\* the expert's preferred store is its domain's default store
PreferredIsDomainDefault(ex, dm, e) ==
  ex[e].preferred_vector_id = dm[ex[e].domain].default_vector_id

\* C1: the registry holds at most one Store Record for each (domain,
\* expert-or-null, client-or-null) owner tuple, in every reachable state.
C1_OneRecordPerOwnerTuple ==
  \A i, j \in DOMAIN vector_stores :
    OwnerTuple(vector_stores[i]) = OwnerTuple(vector_stores[j]) => i = j

ResolvesOwnStore(q, e) ==
  /\ q.expert = e
  /\ \/ q.op = "update_expert_domain_vector"
     \/ q.op = "create_expert_domain_vector" /\ ~q.flag
     \/ q.op = "add_files_to_expert_vector" /\ ~q.flag
     \/ q.op = "delete_vector_id"
     \/ q.op = "delete_vector_memory" /\ q.client = NoName

C5_RaceLeavesOneRecord ==
  (\A p \in Procs : req[p].pc = "done") =>
    Cardinality(ClientRows(RaceExpert, RaceClient)) <= 1

\* the Store Record of a store (a store has at most one)
RecordOf(rows, id) ==
  rows[CHOOSE i \in DOMAIN rows : rows[i].vector_id = id]

C7_ExpertDeleteBlocked ==
  [][( /\ lastOp'.q.expert \in DOMAIN experts
       /\ \/ lastOp'.q.op = "delete_vector_id"
          \/ /\ lastOp'.q.op = "delete_vector_memory"
             /\ lastOp'.q.client = NoName
       /\ \E i \in DOMAIN vector_stores :
            /\ vector_stores[i].expert_name = lastOp'.q.expert
            /\ vector_stores[i].client_name # NoName ) =>
       /\ engine'.stores = engine.stores
       /\ experts'[lastOp'.q.expert].preferred_vector_id =
            experts[lastOp'.q.expert].preferred_vector_id]_vars

\* the urls of the documents registered under the content ids of a record
RecordUrls(docs, rec) ==
  {doc.document_link : doc \in {x \in docs :
                                  x.openai_file_id \in Range(rec.file_ids)}}

\* C8: update-store with exactly the urls the store already holds (one
\* document at least) ingests nothing, removes nothing, returns no batch id
\* and leaves latest_batch_id and batch_ids of the Store Record as they were.
C8_IdenticalMappingIsNoOp ==
  [][( /\ lastOp'.q.op = "update_vector_store"
       /\ lastOp'.r.code = 200
       /\ lastOp'.q.urls # <<>>
       /\ LET rec == RecordOf(vector_stores, lastOp'.q.id)
          IN /\ Range(lastOp'.q.urls) = RecordUrls(documents, rec)
             /\ Len(lastOp'.q.urls) = Len(rec.file_ids)
             /\ Len(lastOp'.q.urls) = Cardinality(Range(lastOp'.q.urls)) ) =>
       LET old == RecordOf(vector_stores, lastOp'.q.id)
           new == RecordOf(vector_stores', lastOp'.q.id)
       IN /\ engine'.next_file = engine.next_file
          /\ documents' = documents
          /\ engine'.files = engine.files
          /\ lastOp'.r.batch_id = NoId
          /\ new.latest_batch_id = old.latest_batch_id
          /\ new.batch_ids = old.batch_ids]_vars

TargetRegistered(q) ==
  \/ /\ q.op = "add_files_to_domain_vector"
     /\ q.urls # <<>>
     /\ q.domain \in DOMAIN domains
     /\ existing_entry(World, domains[q.domain].default_vector_id) # {}
  \/ /\ q.op = "add_files_to_expert_vector"
     /\ q.urls # <<>>
     /\ q.expert \in DOMAIN experts
     /\ IF q.flag
        THEN /\ q.client # NoName
             /\ existing_vector(World, q.expert, q.client,
                                experts[q.expert].domain) # {}
        ELSE /\ experts[q.expert].preferred_vector_id # NoId
             /\ experts[q.expert].preferred_vector_id #
                  experts[q.expert].default_vector_id
             /\ existing_entry(World,
                               experts[q.expert].preferred_vector_id) # {}

\* C10: add-files-to-domain-store and add-files-to-expert-store (with
\* documents to add) fail when the target store already has a Store Record:
\* the request is refused, no document is registered, nothing is ingested and
\* the registry is unchanged.
C10_AddRefusedWhenRegistered ==
  [][TargetRegistered(lastOp'.q) =>
       /\ lastOp'.r.code # 200
       /\ documents' = documents
       /\ engine' = engine
       /\ vector_stores' = vector_stores]_vars

\* the store ids of the Store Records of an (expert, client) pair
ClientStoreIds(e, c) ==
  {vector_stores[i].vector_id : i \in ClientRows(e, c)}

\* the store list a memory type stands for; NoId where there is none
MemoryStores(e, m, c) ==
  IF m = "domain"
  THEN IF experts[e].domain \in DOMAIN domains
       THEN {domains[experts[e].domain].default_vector_id} ELSE {NoId}
  ELSE IF m = "expert" THEN {experts[e].preferred_vector_id}
  ELSE IF m = "client" /\ c # NoName /\ ClientRows(e, c) # {}
  THEN ClientStoreIds(e, c)
  ELSE {NoId}

\* C11: a query on an existing expert hands the engine no store for llm
\* memory and, for domain, expert and client memory, exactly the domain's
\* default store, the expert's preferred store and the store of the (expert,
\* client) record; it fails without asking the engine when that store is
\* absent, the client name is missing or the memory type is none of the four.
C11_QueryStoresFollowMemoryType ==
  ( /\ lastOp.q.op = "query_expert"
    /\ lastOp.q.expert \in DOMAIN experts ) =>
    LET e == lastOp.q.expert
        m == lastOp.q.memory_type
        c == lastOp.q.client
        r == lastOp.r
    IN IF m = "llm"
       THEN r.queried /\ r.vector_store_ids = <<>>
       ELSE IF m \in {"domain", "expert", "client"}
               /\ MemoryStores(e, m, c) # {NoId}
       THEN /\ r.queried
            /\ Len(r.vector_store_ids) = 1
            /\ r.vector_store_ids[1] \in MemoryStores(e, m, c)
       ELSE r.code # 200 /\ ~r.queried

\* C11 witness: a client-memory query has been answered from the store of the
\* pair's record while the expert has a different preferred store.
C11_Witness ==
  /\ lastOp.q.op = "query_expert"
  /\ lastOp.q.memory_type = "client"
  /\ lastOp.r.code = 200
  /\ lastOp.r.vector_store_ids # <<>>
  /\ lastOp.r.vector_store_ids[1] \in ClientStoreIds(lastOp.q.expert, lastOp.q.client)
  /\ experts[lastOp.q.expert].preferred_vector_id \notin
       {NoId, lastOp.r.vector_store_ids[1]}

\* C12: create-domain on a registered name fails with the domain-exists
\* error, creates no store in the engine and leaves domains unchanged.
C12_DuplicateDomainRefused ==
  [][( /\ lastOp'.q.op = "create_domain"
       /\ lastOp'.q.domain \in DOMAIN domains ) =>
       /\ lastOp'.r.code # 200
       /\ lastOp'.r.err = "domain_exists"
       /\ engine' = engine
       /\ domains' = domains]_vars

\* C12 witness: a second create-domain for a name has been refused while the
\* domain keeps the store it was created with.
C12_Witness ==
  /\ lastOp.q.op = "create_domain"
  /\ lastOp.r.err = "domain_exists"
  /\ domains[lastOp.q.domain].default_vector_id \in engine.stores

\* the store was created in the engine under the name Default_<domain>
IsDefaultStoreOf(eng, id, d) ==
  /\ id # NoId
  /\ id \in eng.stores
  /\ eng.store_names[id] = <<"Default", d>>

C14_GetDomainStoreIdempotent ==
  [][lastOp'.q.op = "get_domain_vector_id" =>
       /\ UNCHANGED <<domains, experts, vector_stores, documents, engine>>
       /\ ( /\ lastOp.q.op = "get_domain_vector_id"
            /\ lastOp.q.domain = lastOp'.q.domain ) =>
            lastOp'.r = lastOp.r]_vars

\* C14 witness: the default store of a domain has been read and it is the
\* store the domain row carries.
C14_Witness ==
  /\ lastOp.q.op = "get_domain_vector_id"
  /\ lastOp.r.code = 200
  /\ lastOp.r.default_vector_id # NoId
  /\ lastOp.r.default_vector_id = domains[lastOp.q.domain].default_vector_id
  /\ served >= 3

\* C15: delete-expert-store with a store id other than the expert's preferred
\* store fails, deletes no store from the engine and leaves the expert row
\* unchanged.
C15_MismatchedDeleteRefused ==
  [][( /\ lastOp'.q.op = "delete_vector_id"
       /\ lastOp'.q.expert \in DOMAIN experts
       /\ experts[lastOp'.q.expert].preferred_vector_id # lastOp'.q.id ) =>
       /\ lastOp'.r.code # 200
       /\ lastOp'.r.err = "vector_id_mismatch"
       /\ engine' = engine
       /\ experts' = experts]_vars

\* C15 witness: the deletion of an existing store that is not the expert's
\* preferred store has been refused.
C15_Witness ==
  /\ lastOp.q.op = "delete_vector_id"
  /\ lastOp.r.err = "vector_id_mismatch"
  /\ lastOp.q.id \in engine.stores
  /\ experts[lastOp.q.expert].preferred_vector_id \in engine.stores

\* the failures a handler finds by validating the request
ValidationErrors ==
  {"domain_exists", "domain_not_found", "expert_not_found", "store_not_found",
   "vector_id_mismatch", "no_domain", "missing_client_name",
   "invalid_memory_type", "invalid_parameters", "no_default_store",
   "no_vector_store", "no_vector_id", "blocked"}

\* C16: a validation failure reaches the caller with a status of its own kind
\* (not found, conflict, invalid request), never the status of an upstream
\* failure.
C16_ValidationKeepsItsKind ==
  lastOp.r.err \in ValidationErrors => lastOp.r.code \in {400, 404, 409}

\* C17: a response to a request one of whose sub-steps was skipped or failed
\* (warn names the step) tells the caller so.  The payloads of the handlers
\* carry the entity and a message that does not depend on the sub-steps, so
\* such a response is one that is not the success response.
C17_SkippedStepIsReported ==
  lastOp.r.warn # "none" => lastOp.r.code # 200

\* C18: create-expert-client-store invoked again right after a successful
\* invocation for the same (expert, client) returns the same store identifier
\* and creates no second store in the engine.
C18_ClientResolutionIdempotent ==
  [][( /\ lastOp.q.op = "create_expert_client_vector"
       /\ lastOp.r.code = 200
       /\ lastOp'.q.op = "create_expert_client_vector"
       /\ lastOp'.q.expert = lastOp.q.expert
       /\ lastOp'.q.client = lastOp.q.client
       /\ lastOp'.r.code = 200 ) =>
       /\ lastOp'.r.vector_id = lastOp.r.vector_id
       /\ engine'.stores = engine.stores]_vars

\* C19: create-expert-client-store leaves vector_stores, experts, domains and
\* documents unchanged; with a Store Record for (expert, client, domain) it
\* returns that record's store and leaves the engine alone, otherwise a
\* success has created exactly one store, named <expert>_<client>_<domain>,
\* and a failure none.
C19_ClientResolutionWritesNoTable ==
  [][lastOp'.q.op = "create_expert_client_vector" =>
       /\ UNCHANGED <<vector_stores, experts, domains, documents>>
       /\ lastOp'.q.expert \in DOMAIN experts =>
            LET e == lastOp'.q.expert
                c == lastOp'.q.client
                d == experts[e].domain
                found == existing_vector(World, e, c, d)
                id == lastOp'.r.vector_id
            IN IF found # {}
               THEN /\ lastOp'.r.code = 200
                    /\ id \in {vector_stores[i].vector_id : i \in found}
                    /\ engine' = engine
               ELSE IF lastOp'.r.code = 200
               THEN /\ id \notin engine.stores
                    /\ engine'.stores = engine.stores \cup {id}
                    /\ engine'.store_names[id] = <<e, c, d>>
               ELSE engine' = engine]_vars

\* C19 witness: a store has been created for a pair that has no Store Record,
\* and the registry is still empty.
C19_Witness ==
  /\ lastOp.q.op = "create_expert_client_vector"
  /\ lastOp.r.code = 200
  /\ lastOp.r.msg = "created"
  /\ lastOp.r.vector_id \in engine.stores
  /\ vector_stores = <<>>

\* a domain row without a default store reference
LacksDefaultStore(d) ==
  d \in DOMAIN domains /\ domains[d].default_vector_id = NoId

\* C20 (as claimed): get-domain-default-store on a domain whose row carries
\* no default store reference creates a store named Default_<domain>,
\* persists it on the row and returns it.
C20_MissingDefaultIsCreated ==
  [][( /\ lastOp'.q.op = "get_domain_vector_id"
       /\ LacksDefaultStore(lastOp'.q.domain) ) =>
       /\ IsDefaultStoreOf(engine', domains'[lastOp'.q.domain].default_vector_id, lastOp'.q.domain)
       /\ lastOp'.r.default_vector_id =
            domains'[lastOp'.q.domain].default_vector_id]_vars

\* C20 (amended): on a domain whose row carries no default store reference,
\* get-domain-default-store succeeds with a null reference and
\* add-files-to-domain-store fails; neither creates a store in the engine nor
\* changes the domain row, so the domain still has no default store.
C20_MissingDefaultStaysMissing ==
  [][( /\ lastOp'.q.op \in {"get_domain_vector_id", "add_files_to_domain_vector"}
       /\ LacksDefaultStore(lastOp'.q.domain) ) =>
       /\ IF lastOp'.q.op = "get_domain_vector_id"
          THEN lastOp'.r.code = 200 /\ lastOp'.r.default_vector_id = NoId
          ELSE lastOp'.r.code # 200 /\ lastOp'.r.err = "no_default_store"
       /\ UNCHANGED <<domains, experts, vector_stores, documents, engine>>]_vars

\* C20 witness: the default store of a domain created without one has been
\* asked for and the answer is the null reference.
C20_Witness ==
  /\ lastOp.q.op = "get_domain_vector_id"
  /\ lastOp.r.code = 200
  /\ lastOp.r.default_vector_id = NoId
  /\ LacksDefaultStore(lastOp.q.domain)

\* a Store Record of owner expert for store id, expert e of domain d, no client
ExpertRecordOf(id, e, d) ==
  \E i \in DOMAIN vector_stores :
    /\ vector_stores[i].vector_id = id
    /\ vector_stores[i].owner = "expert"
    /\ vector_stores[i].expert_name = e
    /\ vector_stores[i].domain_name = d
    /\ vector_stores[i].client_name = NoName

\* C21: when create-expert has returned for an expert opted out of the domain
\* default (and none of its steps was abandoned), the expert's preferred
\* store is a store named <expert>_<domain> and the registry holds a Store
\* Record of owner expert for that store, the expert's domain and no client.
C21_OptOutRegistersDedicatedStore ==
  ( /\ lastOp.q.op = "create_expert"
    /\ ~lastOp.q.flag
    /\ lastOp.r.code = 200
    /\ lastOp.r.warn = "none" ) =>
    LET e == lastOp.q.expert
        d == lastOp.q.domain
        id == experts[e].preferred_vector_id
    IN /\ id \in engine.stores
       /\ engine.store_names[id] = <<e, d>>
       /\ ExpertRecordOf(id, e, d)

\* C22: the content ids update-store submits to the engine's batch-ingest
\* call are only those it has just registered for the urls that are new in
\* the mapping; the ids of the urls it keeps are not submitted again.
C22_KeptContentNotReingested ==
  ( /\ lastOp.q.op = "update_vector_store"
    /\ lastOp.r.code = 200 ) =>
    \A i \in DOMAIN lastOp.r.batches :
      lastOp.r.batches[i] \subseteq Range(lastOp.r.file_ids)

AddFilesOps == {"add_files_to_domain_vector", "add_files_to_expert_vector"}

DocumentsOf(r) ==
  {doc \in documents :
     /\ doc.domain = r.domain_name
     /\ doc.created_by = (IF r.expert_name # NoName THEN r.expert_name
                          ELSE "default")
     /\ doc.client_name = r.client_name}

\* C25: for every Store Record that lists content and whose store the engine
\* holds, the record's file ids are the content ids attached to the store in
\* the engine, and the content id of every Document row created for the
\* record's owner tuple is one of them.
C25_RecordMatchesEngine ==
  \A i \in DOMAIN vector_stores :
    LET r == vector_stores[i]
    IN ( r.vector_id \in engine.stores /\ r.file_ids # <<>> ) =>
         /\ Range(r.file_ids) = engine.store_files[r.vector_id]
         /\ \A doc \in DocumentsOf(r) : doc.openai_file_id \in Range(r.file_ids)

\* the shape the owner discriminator of a Store Record stands for
ShapeOfOwner(r) ==
  \/ /\ r.owner = "domain"
     /\ r.domain_name # NoName
     /\ r.expert_name = NoName
     /\ r.client_name = NoName
  \/ /\ r.owner = "expert"
     /\ r.expert_name # NoName
     /\ r.client_name = NoName
  \/ /\ r.owner = "client"
     /\ r.domain_name # NoName
     /\ r.expert_name # NoName
     /\ r.client_name # NoName

\* C26: every Store Record has the shape of its owner discriminator: owner
\* domain with null expert and client, owner expert with an expert and a null
\* client, owner client with domain, expert and client all set.
C26_RecordShapeFollowsOwner ==
  \A i \in DOMAIN vector_stores : ShapeOfOwner(vector_stores[i])

\* C26 witness: the registry holds a record of each of the three owners.
C26_Witness ==
  \A o \in {"domain", "expert", "client"} :
    \E i \in DOMAIN vector_stores : vector_stores[i].owner = o

\* the store identifiers the tables refer to
ReferencedStores ==
  ( {domains[d].default_vector_id : d \in DOMAIN domains}
    \cup {experts[e].preferred_vector_id : e \in DOMAIN experts}
    \cup {vector_stores[i].vector_id : i \in DOMAIN vector_stores} ) \ {NoId}

\* C27: every store a domain's default field, an expert's preferred field or a
\* Store Record refers to is a store the engine holds.
C27_ReferencedStoresExist ==
  ReferencedStores \subseteq engine.stores

\* the stores created in the engine under the name <expert>_<domain>
DedicatedStores(e) ==
  {id \in engine.stores : engine.store_names[id] = <<e, experts[e].domain>>}

\* C28: when two update-expert-domain-store requests for one expert have
\* been served at the same time, the engine holds at most one store created
\* for the expert and every request that succeeded has returned the store
\* that is the expert's preferred store.
C28_ConcurrentResolutionCreatesOne ==
  ( \A p \in Procs : req[p].pc = "done" ) =>
    /\ Cardinality(DedicatedStores(RaceExpert)) <= 1
    /\ \A p \in Procs :
         req[p].code = 200 =>
           req[p].vector_id = experts[RaceExpert].preferred_vector_id

\* the positions of a name in the member list of the domain
MemberPositions(d, e) ==
  {i \in DOMAIN domains[d].expert_names : domains[d].expert_names[i] = e}

\* C29: when the create-expert requests for a domain, served one after the
\* other or at the same time, have all returned, the domain's member list
\* holds the name of each expert created exactly once.
C29_MembersListEveryExpert ==
  ( \A p \in Procs : req[p].pc = "done" /\ req[p].code = 200 ) =>
    \A p \in Procs : Cardinality(MemberPositions("d1", req[p].expert)) = 1

\* a reference after the deletion of store id: null if it pointed at the
\* store, as it was otherwise
ClearedIfPointing(ref, id) == IF ref = id THEN NoId ELSE ref

\* C30: a successful delete-store-by-owner has removed the Store Record it
\* selected and the record's store from the engine; the default store of the
\* domain (domain owner) or the preferred store of the expert (expert owner)
\* is null afterwards if it pointed at that store and is otherwise as it
\* was, and nothing else in domains and experts has changed.
C30_DeleteByOwnerClearsItsReference ==
  [][( /\ lastOp'.q.op = "delete_vector_memory"
       /\ lastOp'.r.code = 200 ) =>
       LET q == lastOp'.q
           id == lastOp'.r.vector_id
           owner == delete_owner(q.domain, q.expert, q.client)
       IN /\ existing_entry(World, id) # {}
          /\ \A i \in DOMAIN vector_stores' : vector_stores'[i].vector_id # id
          /\ id \in engine.stores
          /\ id \notin engine'.stores
          /\ IF owner = "domain"
             THEN /\ experts' = experts
                  /\ domains' = [domains EXCEPT ![q.domain].default_vector_id =
                                   ClearedIfPointing(@, id)]
             ELSE IF owner = "expert"
             THEN /\ domains' = domains
                  /\ experts' = [experts EXCEPT ![q.expert].preferred_vector_id =
                                   ClearedIfPointing(@, id)]
             ELSE domains' = domains /\ experts' = experts]_vars

====
